---- MODULE Spec2Model ----
(***************************************************************************)
(* Document Knowledge Retrieval: the document lifecycle (ingest, remove,   *)
(* Clear All, Reset DB), the embedding/insert path of the vector store and *)
(* the two-stage query pipeline, as one Streamlit session runs them.       *)
(*                                                                         *)
(* External services (the vector database, the embedding and generation    *)
(* APIs, the file system) are modelled by their results: every call either *)
(* succeeds with the effect its contract gives or raises.                  *)
(***************************************************************************)
EXTENDS Integers, Sequences, FiniteSets, TLC

VARIABLES
    cfg,            \* config.py: which of the three required settings are set
    initialized,    \* st.session_state.initialized (vector_store and crew set)
    has_collection, \* the collection exists in the vector database
    index,          \* the records of the collection, in insertion order
    files,          \* the uploads directory: file name -> file content
    analytics,      \* st.session_state.analytics
    messages,       \* st.session_state.messages
    preview_file,   \* st.session_state.preview_file (a name) or NoPreview
    rephrase_query, \* st.session_state.rephrase_query, "" when there is none
    selected_model, \* st.session_state.selected_model
    vector_store,   \* st.session_state.vector_store is set (not None)
    crew,           \* st.session_state.crew: <<>> when None, else the crew
    steps,          \* how many steps the deployment has taken so far
    pc,             \* position of the running handler, "idle" between handlers
    op,             \* locals of the running handler, kept after it returns
    trace           \* the external effects the running handler has issued, in order

vars == <<cfg, initialized, has_collection, index, files, analytics, messages,
          preview_file, rephrase_query, selected_model, vector_store, crew,
          steps, pc, op, trace>>

----------------------------------------------------------------------------
(* Bounds of the model *)

\* the largest number of embedding batches one file needs
MaxBatches == 3
\* the largest number of files in one upload batch
MaxBatchLen == 2
\* the largest number of records the index is allowed to reach
MaxIndexRows == 210
\* the largest number of chat messages kept in the session
MaxMessages == 4
\* the largest number of steps (clicks and handler steps) of one behaviour
MaxSteps == 7

(* Program constants *)

\* batch_size in add_documents
BatchSize == 100
\* top_k default of DocumentRAGCrew.query and VectorStoreManager.search
TopK == 5
\* sources[:5] in ResponseAgent.synthesize
SourceListLen == 5
\* doc.page_content[:65535]
VarcharLimit == 65535
\* config.CHUNK_SIZE default
CHUNK_SIZE == 1000

----------------------------------------------------------------------------
(* Sequence helpers *)

Min(a, b) == IF a <= b THEN a ELSE b

\* s[:n]
Take(s, n) == SubSeq(s, 1, Min(n, Len(s)))

\* s[i:j] of Python, 0-based, end exclusive
Slice(s, i, j) == SubSeq(s, i + 1, Min(j, Len(s)))

----------------------------------------------------------------------------
(* config.py *)

SUPPORTED_EXTENSIONS == {".pdf", ".txt", ".csv", ".json"}

RequiredSettings == {"OPENAI_API_KEY", "MILVUS_URI", "MILVUS_TOKEN"}

\* validate_config that does not look at MILVUS_TOKEN
validate_config_no_token(c) ==
    LET errors == {k \in RequiredSettings \ {"MILVUS_TOKEN"} : ~c[k]}
    IN  [is_valid |-> errors = {}, errors |-> errors]

\* validate_config: one error line per missing setting
validate_config(c) ==
    LET errors == {k \in RequiredSettings : ~c[k]}
    IN  [is_valid |-> errors = {}, errors |-> errors]

----------------------------------------------------------------------------
(* File names and file contents *)

\* the names a user uploads; st.file_uploader(type=["pdf", "txt", "csv"])
Names == {"a.pdf", "b.TXT"}

\* the paths load_document is called with when DocumentProcessor is used
\* directly (process_file, process_directory): any file name
PathNames ==
    Names \cup {"c.csv", "d.json", "e.JSON", "f.docx", "g.md", "notes",
                "i.Pdf", ".json", "k.tar.gz", "l.txt.bak", "m.Csv", "o.PDF"}

\* Path(name).suffix
suffix(name) ==
    CASE name = "a.pdf" -> ".pdf"
      [] name = "b.TXT" -> ".TXT"
      [] name = "c.csv" -> ".csv"
      [] name = "d.json" -> ".json"
      [] name = "e.JSON" -> ".JSON"
      [] name = "f.docx" -> ".docx"
      [] name = "g.md" -> ".md"
      [] name = "i.Pdf" -> ".Pdf"
      [] name = "k.tar.gz" -> ".gz"
      [] name = "l.txt.bak" -> ".bak"
      [] name = "m.Csv" -> ".Csv"
      [] name = "o.PDF" -> ".PDF"
      [] OTHER -> ""

\* str.lower() on an extension
lower(ext) ==
    CASE ext = ".TXT" -> ".txt"
      [] ext = ".PDF" -> ".pdf"
      [] ext = ".Pdf" -> ".pdf"
      [] ext = ".CSV" -> ".csv"
      [] ext = ".Csv" -> ".csv"
      [] ext = ".JSON" -> ".json"
      [] OTHER -> ext

\* pieces of one PDF page, as the loader and the splitter produce them
ChunksPerPage == 4

\* the numbers of chunks a file can split into: none, one full batch, and
\* MaxBatches batches of which the last is partial
ChunkCounts ==
    {0, BatchSize, (MaxBatches - 1) * BatchSize + 1}

\* what a file holds: whether its loader can read it, and its chunk count
Contents ==
    {[readable |-> TRUE, n |-> c] : c \in ChunkCounts}
        \cup {[readable |-> FALSE, n |-> 0]}

\* a file whose write failed after open(file_path, "wb") created it
Truncated == [readable |-> FALSE, n |-> 0]

NoPage == -1

----------------------------------------------------------------------------
(* src/document_processor.py *)

\* load_document: the loader by lower-cased extension, then loader.load(),
\* then the source metadata.  One loaded piece per chunk the splitter yields.
load_document(name, content) ==
    LET extension == lower(suffix(name))
    IN  IF extension \notin {".pdf", ".txt", ".csv"}
        THEN [ok |-> FALSE, error |-> "ValueError", documents |-> <<>>]
        ELSE IF ~content.readable
        THEN [ok |-> FALSE, error |-> "LoadError", documents |-> <<>>]
        ELSE [ok |-> TRUE, error |-> "",
              documents |->
                [i \in 1..content.n |->
                    [page_content |-> [id |-> <<name, i - 1>>, len |-> CHUNK_SIZE],
                     source |-> name,
                     page |-> IF extension = ".pdf"
                              THEN (i - 1) \div ChunksPerPage ELSE NoPage]]]

\* chunk_documents: chunk_index = position in the chunk list, from 0
chunk_documents(documents) ==
    [i \in 1..Len(documents) |->
        [page_content |-> documents[i].page_content,
         source |-> documents[i].source,
         page |-> documents[i].page,
         chunk_index |-> i - 1]]

\* process_file: load, then chunk
process_file(name, content) ==
    LET loaded == load_document(name, content)
    IN  IF loaded.ok
        THEN [ok |-> TRUE, chunks |-> chunk_documents(loaded.documents)]
        ELSE [ok |-> FALSE, chunks |-> <<>>]

\* get_uploaded_files: the names in the uploads directory with a supported extension
get_uploaded_files(dir) ==
    {name \in DOMAIN dir : lower(suffix(name)) \in SUPPORTED_EXTENSIONS}

\* DocumentProcessor.delete_file: remove the file when it exists
processor_delete_file(dir, name) ==
    [f \in (DOMAIN dir) \ {name} |-> dir[f]]

\* save_uploaded_file: write the upload under its name (collisions overwrite)
save_uploaded_file(dir, name, content) ==
    [f \in (DOMAIN dir) \cup {name} |-> IF f = name THEN content ELSE dir[f]]

----------------------------------------------------------------------------
(* src/vector_store.py *)

\* the embedding API on one text
Embed(text) == <<"vec", text.id>>

\* get_embeddings_batch: one vector per input, in input order
get_embeddings_batch(texts) ==
    [i \in 1..Len(texts) |-> Embed(texts[i])]

\* embed_batches with the new batch put in front of the earlier ones
RECURSIVE embed_batches_prepend(_, _, _, _)
embed_batches_prepend(texts, i, all_embeddings, failAt) ==
    IF i >= Len(texts)
    THEN [ok |-> TRUE, all_embeddings |-> all_embeddings]
    ELSE IF failAt = (i \div BatchSize) + 1
    THEN [ok |-> FALSE, all_embeddings |-> all_embeddings]
    ELSE LET batch == Slice(texts, i, i + BatchSize)
             embeddings == [k \in 1..Len(batch) |-> Embed(batch[k])]
         IN  embed_batches_prepend(texts, i + BatchSize,
                                   embeddings \o all_embeddings, failAt)

\* the batch loop of add_documents, from offset i; batch number failAt raises
RECURSIVE embed_batches(_, _, _, _)
embed_batches(texts, i, all_embeddings, failAt) ==
    IF i >= Len(texts)
    THEN [ok |-> TRUE, all_embeddings |-> all_embeddings]
    ELSE IF failAt = (i \div BatchSize) + 1
    THEN [ok |-> FALSE, all_embeddings |-> all_embeddings]
    ELSE LET batch == Slice(texts, i, i + BatchSize)
             embeddings == get_embeddings_batch(batch)
         IN  embed_batches(texts, i + BatchSize, all_embeddings \o embeddings, failAt)

\* doc.page_content[:65535]
truncate_text(t) == [t EXCEPT !.len = Min(t.len, VarcharLimit)]

\* doc.metadata.get("page", 0)
page_or_default(p) == IF p = NoPage THEN 0 ELSE p

\* the records add_documents prepares for Milvus
prepare_data(documents, all_embeddings) ==
    [i \in 1..Len(documents) |->
        [vector |-> all_embeddings[i],
         text |-> truncate_text(documents[i].page_content),
         source |-> documents[i].source,
         page |-> page_or_default(documents[i].page),
         chunk_index |-> documents[i].chunk_index]]

\* number of embedding batches of a list of n texts: len(range(0, n, batch_size))
NumBatches(n) == (n + BatchSize - 1) \div BatchSize

\* add_documents inserting each batch as soon as it is embedded
add_documents_partial(idx, documents, failAt, insert_ok) ==
    IF Len(documents) = 0
    THEN [ok |-> TRUE, added |-> 0, index |-> idx, data |-> <<>>]
    ELSE LET texts == [i \in 1..Len(documents) |-> documents[i].page_content]
             embedded == embed_batches(texts, 0, <<>>, failAt)
             done == Take(documents, Len(embedded.all_embeddings))
             data == prepare_data(done, embedded.all_embeddings)
         IN  IF ~insert_ok
             THEN [ok |-> FALSE, added |-> 0, index |-> idx, data |-> <<>>]
             ELSE [ok |-> embedded.ok, added |-> Len(data),
                   index |-> idx \o data, data |-> data]

\* add_documents on the collection idx: every batch is embedded before the one
\* insert; failAt = 0 means no embedding call raises; insert_ok is whether
\* client.insert succeeds.  Yields the new collection and the count returned.
add_documents(idx, documents, failAt, insert_ok) ==
    IF Len(documents) = 0
    THEN [ok |-> TRUE, added |-> 0, index |-> idx, data |-> <<>>]
    ELSE LET texts == [i \in 1..Len(documents) |-> documents[i].page_content]
             embedded == embed_batches(texts, 0, <<>>, failAt)
         IN  IF ~embedded.ok
             THEN [ok |-> FALSE, added |-> 0, index |-> idx, data |-> <<>>]
             ELSE LET data == prepare_data(documents, embedded.all_embeddings)
                  IN  IF ~insert_ok
                      THEN [ok |-> FALSE, added |-> 0, index |-> idx, data |-> <<>>]
                      ELSE [ok |-> TRUE, added |-> Len(data),
                            index |-> idx \o data, data |-> data]

\* the number of records of the collection whose source is source_name
records_of(idx, source_name) ==
    Len(SelectSeq(idx, LAMBDA r : r.source = source_name))

\* a delete whose filter matches every record
delete_filter_all(idx, source_name) ==
    SelectSeq(idx, LAMBDA r : r.source # r.source)

\* client.delete(filter='source == "<name>"'): the records left, and the count
delete_filter(idx, source_name) ==
    SelectSeq(idx, LAMBDA r : r.source # source_name)

\* delete_by_source: a failing delete is printed and reported as 0
delete_by_source(idx, source_name, delete_ok) ==
    IF delete_ok
    THEN [index |-> delete_filter(idx, source_name),
          deleted |-> Len(idx) - Len(delete_filter(idx, source_name))]
    ELSE [index |-> idx, deleted |-> 0]

\* get_collection_stats without its try/except: a failing database call
\* reaches the caller
get_collection_stats_raising(idx, exists, stats_ok) ==
    IF ~stats_ok THEN [row_count |-> 0, error |-> FALSE, raised |-> TRUE]
    ELSE IF exists THEN [row_count |-> Len(idx), error |-> FALSE, raised |-> FALSE]
    ELSE [row_count |-> 0, error |-> FALSE, raised |-> FALSE]

\* get_collection_stats: the row count, or 0 with an error entry when the
\* database call raises, or 0 when the collection does not exist; raised is
\* whether an exception leaves the method
get_collection_stats(idx, exists, stats_ok) ==
    IF ~stats_ok THEN [row_count |-> 0, error |-> TRUE, raised |-> FALSE]
    ELSE IF exists THEN [row_count |-> Len(idx), error |-> FALSE, raised |-> FALSE]
    ELSE [row_count |-> 0, error |-> FALSE, raised |-> FALSE]

\* clear_collection: drop, then _ensure_collection.  outcome is which database
\* call raises: "ok" (none), "has" (has_collection), "drop" (drop_collection),
\* "create" (the has_collection/create_collection of _ensure_collection)
ClearOutcomes == {"ok", "has", "drop", "create"}

clear_collection(idx, exists, outcome) ==
    IF outcome = "has" THEN [ok |-> FALSE, index |-> idx, exists |-> exists]
    ELSE IF ~exists THEN [ok |-> TRUE, index |-> idx, exists |-> exists]
    ELSE IF outcome = "drop" THEN [ok |-> FALSE, index |-> idx, exists |-> exists]
    ELSE IF outcome = "create" THEN [ok |-> FALSE, index |-> <<>>, exists |-> FALSE]
    ELSE [ok |-> TRUE, index |-> <<>>, exists |-> TRUE]

\* a database call on a collection that does not exist raises
db_ok(exists, call_ok) == exists /\ call_ok

\* the similarity of a record to a query, as the database ranks it
Score(q, r) ==
    (r.chunk_index * (IF q = "Summarize" THEN 1 ELSE 2)
        + (IF r.source = "a.pdf" THEN 0 ELSE 3)) % 7

\* the positions of idx with the given score, in insertion order
positions_with_score(idx, q, level) ==
    SelectSeq([i \in 1..Len(idx) |-> i], LAMBDA i : Score(q, idx[i]) = level)

\* client.search(limit=top_k): the best-scored positions, best first
RECURSIVE ranked_positions(_, _, _, _, _)
ranked_positions(idx, q, level, acc, top_k) ==
    IF level < 0 \/ Len(acc) >= top_k
    THEN Take(acc, top_k)
    ELSE ranked_positions(idx, q, level - 1,
                          acc \o positions_with_score(idx, q, level), top_k)

\* VectorStoreManager.search after the query was embedded: the formatted hits
search(idx, q, top_k) ==
    LET ranked == ranked_positions(idx, q, 6, <<>>, top_k)
    IN  [i \in 1..Len(ranked) |->
            [text |-> idx[ranked[i]].text,
             source |-> idx[ranked[i]].source,
             page |-> idx[ranked[i]].page,
             chunk_index |-> idx[ranked[i]].chunk_index,
             score |-> Score(q, idx[ranked[i]])]]

----------------------------------------------------------------------------
(* src/agents.py and src/crew.py *)

\* the queries a user sends
Queries == {"Summarize", "What does it cost"}

\* len(prompt.split())
word_count(q) ==
    CASE q = "Summarize" -> 1
      [] q = "Summarize in detail" -> 3
      [] q = "  " -> 0
      [] OTHER -> 4

\* the largest word count of a generated text
MaxAnswerWords == 1

\* result["text"][:300] + "..." if len(result["text"]) > 300 else result["text"]
snippet(t) == IF t.len > 300 THEN [t EXCEPT !.len = 303] ELSE t

\* the sources list of DocumentRAGCrew.query, one entry per hit in rank order
format_sources(search_results) ==
    [i \in 1..Len(search_results) |->
        [source |-> search_results[i].source,
         page |-> search_results[i].page,
         score |-> search_results[i].score,
         text |-> snippet(search_results[i].text)]]

\* RetrievalAgent.analyze: the generation request of stage 1
analyze_request(query, retrieved_chunks) ==
    [stage |-> "analysis",
     query |-> query,
     context |-> [i \in 1..Len(retrieved_chunks) |->
                    [n |-> i,
                     source |-> retrieved_chunks[i].source,
                     page |-> retrieved_chunks[i].page,
                     text |-> retrieved_chunks[i].text]],
     analysis |-> <<>>,
     source_list |-> <<>>]

\* synthesize with the source list cut at the wrong end (sources[5:])
synthesize_request_tail(query, analysis, sources) ==
    [stage |-> "synthesis",
     query |-> query,
     context |-> <<>>,
     analysis |-> <<analysis>>,
     source_list |-> [i \in 1..(Len(sources) - Len(Take(sources, SourceListLen)))
                        |-> sources[i + SourceListLen].source]]

\* ResponseAgent.synthesize: the generation request of stage 2
synthesize_request(query, analysis, sources) ==
    [stage |-> "synthesis",
     query |-> query,
     context |-> <<>>,
     analysis |-> <<analysis>>,
     source_list |-> [i \in 1..Len(Take(sources, SourceListLen)) |-> sources[i].source]]

\* the models the sidebar offers (two of AVAILABLE_MODELS)
Models == {"gpt-4o", "gpt-4o-mini"}

\* the default of session_state.selected_model
DefaultModel == "gpt-4o"

\* config.OPENAI_MODEL_NAME: the model of an agent constructed without one
OPENAI_MODEL_NAME == "gpt-4o-mini"

\* session_state.crew before initialize_services set it
NoCrew == <<>>

\* DocumentRAGCrew(vector_store): its agents start with the configured model
DocumentRAGCrew == <<[model |-> OPENAI_MODEL_NAME]>>

\* DocumentRAGCrew.set_model: every agent gets the model
set_model(c, model) == <<[c[1] EXCEPT !.model = model]>>

\* Agent.run: the chat completion call of an agent, made with the agent's
\* model on the task and context of the request
agent_run(agent, request) ==
    [model |-> agent.model,
     stage |-> request.stage,
     query |-> request.query,
     context |-> request.context,
     analysis |-> request.analysis,
     source_list |-> request.source_list]

\* the text a generation call returns for a request: w words answering it
generated(request, w) ==
    [stage |-> request.stage, query |-> request.query, words |-> w]

\* the fixed answer of DocumentRAGCrew.query when the search has no hit
NoInfoAnswer == [stage |-> "none", query |-> "", words |-> 20]

no_hits_result == [answer |-> NoInfoAnswer, sources |-> <<>>, success |-> FALSE]

----------------------------------------------------------------------------
(* app.py: analytics *)

ZeroAnalytics ==
    [total_chunks |-> 0, total_tokens_used |-> 0,
     total_queries |-> 0, estimated_cost |-> 0]

\* embedding_cost + llm_cost, in units of 10^-7 dollars
cost_of(total_chunks, total_tokens_used) ==
    total_chunks * 650 + total_tokens_used * 4

\* update_analytics storing the new amounts instead of adding them
update_analytics_overwrite(a, chunks_added, tokens_used, query_made) ==
    [total_chunks |-> chunks_added,
     total_tokens_used |-> tokens_used,
     total_queries |-> a.total_queries + (IF query_made THEN 1 ELSE 0),
     estimated_cost |-> cost_of(chunks_added, tokens_used)]

\* update_analytics
update_analytics(a, chunks_added, tokens_used, query_made) ==
    LET chunks == a.total_chunks + chunks_added
        tokens == a.total_tokens_used + tokens_used
    IN  [total_chunks |-> chunks,
         total_tokens_used |-> tokens,
         total_queries |-> a.total_queries + (IF query_made THEN 1 ELSE 0),
         estimated_cost |-> cost_of(chunks, tokens)]

\* int((len(prompt.split()) + len(res["answer"].split())) * 1.5)
tokens_of(prompt, answer) == ((word_count(prompt) + answer.words) * 3) \div 2

----------------------------------------------------------------------------
(* app.py: the session *)

NoPreview == "none"

NoOp == [kind |-> "none", status |-> "done"]

\* init_session_state and module load of config.py: a fresh session of a fresh
\* deployment (empty uploads directory, no collection yet)
Init ==
    /\ cfg \in [RequiredSettings -> BOOLEAN]
    /\ initialized = FALSE
    /\ has_collection = FALSE
    /\ index = <<>>
    /\ files = <<>>
    /\ analytics = ZeroAnalytics
    /\ messages = <<>>
    /\ preview_file = NoPreview
    /\ rephrase_query = ""
    /\ selected_model = DefaultModel
    /\ vector_store = FALSE
    /\ crew = NoCrew
    /\ steps = 0
    /\ pc = "idle"
    /\ op = NoOp
    /\ trace = <<>>

\* main without the stop after a failed initialize_services: the page is
\* rendered whether or not the services exist
Ready_without_stop == pc = "idle"

\* a handler can start: the page rendered past initialize_services
Ready == pc = "idle" /\ initialized

\* a step can still be taken within the bound; the step is counted
Tick == steps < MaxSteps /\ steps' = steps + 1

\* a new browser session of the same deployment: the session state starts
\* from its defaults, the uploads directory and the collection persist
NewSession ==
    /\ Tick
    /\ Ready
    /\ initialized' = FALSE
    /\ analytics' = ZeroAnalytics
    /\ messages' = <<>>
    /\ preview_file' = NoPreview
    /\ rephrase_query' = ""
    /\ selected_model' = DefaultModel
    /\ vector_store' = FALSE
    /\ crew' = NoCrew
    /\ op' = NoOp
    /\ trace' = <<>>
    /\ UNCHANGED <<cfg, has_collection, index, files, pc>>

\* initialize_services.  connect is how VectorStoreManager() and
\* DocumentRAGCrew() end: "ok", "connect" (MilvusClient, has_collection or
\* create_collection raises) or "crew" (the crew constructor raises after the
\* collection was ensured)
InitializeServices ==
    /\ Tick
    /\ pc = "idle"
    /\ ~initialized
    /\ \E connect \in {"ok", "connect", "crew"}, stats_ok \in BOOLEAN :
        IF ~validate_config(cfg).is_valid
        THEN /\ op' = [kind |-> "init", status |-> "error",
                       message |-> validate_config(cfg).errors,
                       constructed |-> <<>>]
             /\ UNCHANGED <<initialized, has_collection, analytics,
                            vector_store, crew>>
        ELSE IF connect = "connect"
        THEN /\ op' = [kind |-> "init", status |-> "error", message |-> {},
                       constructed |-> <<>>]
             /\ UNCHANGED <<initialized, has_collection, analytics,
                            vector_store, crew>>
        ELSE IF connect = "crew"
        THEN /\ has_collection' = TRUE
             /\ vector_store' = TRUE
             /\ op' = [kind |-> "init", status |-> "error", message |-> {},
                       constructed |-> <<"VectorStoreManager">>]
             /\ UNCHANGED <<initialized, analytics, crew>>
        ELSE LET stats == get_collection_stats(index, TRUE, stats_ok)
             IN  /\ has_collection' = TRUE
                 /\ vector_store' = TRUE
                 /\ crew' = DocumentRAGCrew
                 /\ initialized' = TRUE
                 /\ analytics' =
                      IF stats.raised THEN analytics
                      ELSE [analytics EXCEPT !.total_chunks = stats.row_count]
                 /\ op' = [kind |-> "init",
                           status |-> IF stats.raised THEN "error" ELSE "done",
                           message |-> {},
                           constructed |-> <<"VectorStoreManager",
                                             "DocumentRAGCrew">>]
    /\ trace' = <<>>
    /\ UNCHANGED <<cfg, selected_model, rephrase_query, index, files, messages,
                   preview_file, pc>>

\* the view button of a listed file: on_click sets preview_file
ViewDocument ==
    /\ Tick
    /\ Ready
    /\ \E name \in get_uploaded_files(files) :
        /\ preview_file # name
        /\ preview_file' = name
    /\ UNCHANGED <<cfg, selected_model, vector_store, crew, rephrase_query, initialized, has_collection, index, files, analytics,
                   messages, pc, op, trace>>

\* main: the Close Preview button
ClosePreview ==
    /\ Tick
    /\ Ready
    /\ preview_file # NoPreview
    /\ preview_file' = NoPreview
    /\ UNCHANGED <<cfg, selected_model, vector_store, crew, rephrase_query, initialized, has_collection, index, files, analytics,
                   messages, pc, op, trace>>

----------------------------------------------------------------------------
(* app.py: the Rephrase button *)

\* what the query box holds when Rephrase is clicked: nothing, blanks only,
\* or a query
RephraseInputs == {"", "  ", "Summarize"}

\* str.strip()
strip(t) ==
    CASE t = "  " -> ""
      [] t = "Summarize in detail " -> "Summarize in detail"
      [] OTHER -> t

\* how client.chat.completions.create ends: it raises, or it returns a
\* message whose content is a rewritten query or blanks only
RephraseResponses ==
    {[raises |-> TRUE, content |-> ""]}
        \cup {[raises |-> FALSE, content |-> c] : c \in {"Summarize in detail ", "  "}}

\* the generation request of rephrase_query_func
rephrase_request(query) ==
    [stage |-> "rephrase", query |-> query, context |-> <<>>,
     analysis |-> <<>>, source_list |-> <<>>]

\* rephrase_query_func without the check for an empty query
rephrase_query_func_no_check(query, has_client, response) ==
    IF ~has_client
    THEN [result |-> query, requests |-> <<>>, raised |-> FALSE]
    ELSE IF response.raises
    THEN [result |-> query, requests |-> <<rephrase_request(query)>>,
          raised |-> TRUE]
    ELSE [result |-> strip(response.content),
          requests |-> <<rephrase_request(query)>>, raised |-> FALSE]

\* rephrase_query_func: the text it returns, the generation requests it made
\* and whether its call raised
rephrase_query_func(query, has_client, response) ==
    IF query = "" \/ strip(query) = ""
    THEN [result |-> query, requests |-> <<>>, raised |-> FALSE]
    ELSE IF ~has_client
    THEN [result |-> query, requests |-> <<>>, raised |-> FALSE]
    ELSE IF response.raises
    THEN [result |-> query, requests |-> <<rephrase_request(query)>>,
          raised |-> TRUE]
    ELSE [result |-> strip(response.content),
          requests |-> <<rephrase_request(query)>>, raised |-> FALSE]

\* render_chat: the Rephrase button.  With an empty box it only warns; else
\* the result of rephrase_query_func becomes rephrase_query and the script
\* reruns
Rephrase ==
    /\ Tick
    /\ Ready
    /\ \E query_input \in RephraseInputs, response \in RephraseResponses :
        IF query_input = ""
        THEN /\ op' = [kind |-> "rephrase", status |-> "done",
                       input |-> query_input, called |-> FALSE,
                       result |-> query_input, raised |-> FALSE]
             /\ trace' = <<>>
             /\ UNCHANGED rephrase_query
        ELSE LET r == rephrase_query_func(query_input, cfg["OPENAI_API_KEY"],
                                          response)
             IN  /\ rephrase_query' = r.result
                 /\ op' = [kind |-> "rephrase", status |-> "done",
                           input |-> query_input, called |-> TRUE,
                           result |-> r.result, raised |-> r.raised]
                 /\ trace' = r.requests
    /\ UNCHANGED <<cfg, selected_model, vector_store, crew, initialized, has_collection, index, files, analytics,
                   messages, preview_file, pc>>

----------------------------------------------------------------------------
(* app.py: ingestion *)

\* the file lists the uploader can hand over, by name (the same name can be
\* uploaded twice in one list); what a file holds is read when it is saved
RECURSIVE BatchesUpTo(_)
BatchesUpTo(n) ==
    IF n = 0 THEN {<<>>}
    ELSE LET shorter == BatchesUpTo(n - 1)
         IN  shorter \cup
             {Append(b, f) : b \in {x \in shorter : Len(x) = n - 1}, f \in Names}

\* render_sidebar: the uploaded files whose name is not in the uploads directory
new_files_of(uploaded_files, dir) ==
    SelectSeq(uploaded_files, LAMBDA f : f \notin get_uploaded_files(dir))

\* what can go wrong while one file is handled: the save ("open": open()
\* raises, "write": the write raises after the file was created), one
\* embedding batch (failAt, 0 for none), the insert
IngestOutcomes ==
    [save : {"ok", "open", "write"}, failAt : 0..MaxBatches, insert_ok : BOOLEAN]

\* the outcomes that differ in what happens to the file: a call that is not
\* reached does not fail
reached(content, outcome) ==
    LET adds == outcome.save = "ok" /\ content.readable /\ content.n > 0
    IN  /\ outcome.failAt <= NumBatches(content.n)
        /\ ~adds => (outcome.failAt = 0 /\ outcome.insert_ok)
        /\ outcome.failAt # 0 => outcome.insert_ok

\* the try body of process_uploaded_files for one file: save, process, add,
\* count.  Yields the directory, the collection and the analytics after it,
\* and the step that raised ("" when none did).
ingest_file(dir, idx, exists, a, name, content, outcome) ==
    IF outcome.save = "open"
    THEN [raised |-> "save", files |-> dir, index |-> idx, analytics |-> a,
          added |-> 0]
    ELSE IF outcome.save = "write"
    THEN [raised |-> "save", files |-> save_uploaded_file(dir, name, Truncated),
          index |-> idx, analytics |-> a, added |-> 0]
    ELSE LET saved == save_uploaded_file(dir, name, content)
             c == process_file(name, content)
         IN  IF ~c.ok
             THEN [raised |-> "load", files |-> saved, index |-> idx,
                   analytics |-> a, added |-> 0]
             ELSE IF Len(c.chunks) = 0
             THEN [raised |-> "", files |-> saved, index |-> idx,
                   analytics |-> a, added |-> 0]
             ELSE LET r == add_documents(idx, c.chunks, outcome.failAt,
                                         db_ok(exists, outcome.insert_ok))
                  IN  IF ~r.ok
                      THEN [raised |-> IF outcome.failAt # 0 THEN "embed" ELSE "insert",
                            files |-> saved, index |-> r.index,
                            analytics |-> a, added |-> 0]
                      ELSE [raised |-> "", files |-> saved, index |-> r.index,
                            analytics |-> update_analytics(a, r.added, 0, FALSE),
                            added |-> r.added]

\* the loop of process_uploaded_files with the progress update inside the
\* try: a file that fails reports no progress
loop_after_file_progress_in_try(o, name, content, outcome, r, present, indexed, rows, a) ==
    [o EXCEPT
        !.i = o.i + 1,
        !.chunks = o.chunks + r.added,
        !.progress = IF r.raised = "" THEN Append(o.progress, <<o.i + 1, Len(o.files)>>)
                     ELSE o.progress,
        !.errors = o.errors + (IF r.raised = "" THEN 0 ELSE 1),
        !.last = <<[name |-> name, n |-> content.n, raised |-> r.raised,
                    failAt |-> outcome.failAt, added |-> r.added,
                    present_before |-> present, indexed_before |-> indexed,
                    errors_before |-> o.errors,
                    rows_before |-> rows, chunks_before |-> a.total_chunks,
                    analytics_before |-> a]>>,
        !.status = IF o.i + 1 = Len(o.files) THEN "done" ELSE "running"]

\* the loop of process_uploaded_files without the per-file try: an error
\* ends the batch
loop_after_file_abort(o, name, content, outcome, r, present, indexed, rows, a) ==
    [o EXCEPT
        !.i = o.i + 1,
        !.chunks = o.chunks + r.added,
        !.progress = Append(o.progress, <<o.i + 1, Len(o.files)>>),
        !.errors = o.errors + (IF r.raised = "" THEN 0 ELSE 1),
        !.last = <<[name |-> name, n |-> content.n, raised |-> r.raised,
                    failAt |-> outcome.failAt, added |-> r.added,
                    present_before |-> present, indexed_before |-> indexed,
                    errors_before |-> o.errors,
                    rows_before |-> rows, chunks_before |-> a.total_chunks,
                    analytics_before |-> a]>>,
        !.status = IF o.i + 1 = Len(o.files) \/ r.raised # ""
                   THEN "done" ELSE "running"]

\* process_uploaded_files: what the loop does with the result of one file
\* (the error is reported and the loop goes on) and the progress update
loop_after_file(o, name, content, outcome, r, present, indexed, rows, a) ==
    [o EXCEPT
        !.i = o.i + 1,
        !.chunks = o.chunks + r.added,
        !.progress = Append(o.progress, <<o.i + 1, Len(o.files)>>),
        !.errors = o.errors + (IF r.raised = "" THEN 0 ELSE 1),
        !.last = <<[name |-> name, n |-> content.n, raised |-> r.raised,
                    failAt |-> outcome.failAt, added |-> r.added,
                    present_before |-> present, indexed_before |-> indexed,
                    errors_before |-> o.errors,
                    rows_before |-> rows, chunks_before |-> a.total_chunks,
                    analytics_before |-> a]>>,
        !.status = IF o.i + 1 = Len(o.files) THEN "done" ELSE "running"]

\* render_sidebar with a non-empty upload: the Process New Documents button is
\* shown when some file is new, and a click starts process_uploaded_files
ProcessNewDocuments ==
    /\ Tick
    /\ Ready
    /\ \E uploaded_files \in BatchesUpTo(MaxBatchLen) :
        LET new_files == new_files_of(uploaded_files, files)
        IN  /\ new_files # <<>>
            /\ op' = [kind |-> "ingest", status |-> "running",
                      files |-> new_files, i |-> 0, chunks |-> 0,
                      progress |-> <<>>, errors |-> 0, last |-> <<>>,
                      rows_start |-> Len(index)]
    /\ pc' = "ingest"
    /\ trace' = <<>>
    /\ UNCHANGED <<cfg, selected_model, vector_store, crew, rephrase_query, initialized, has_collection, index, files, analytics,
                   messages, preview_file>>

\* one turn of the loop of process_uploaded_files; after the last file the
\* status line is shown and st.rerun() ends the handler
IngestFile ==
    /\ Tick
    /\ pc = "ingest"
    /\ \E content \in Contents, outcome \in IngestOutcomes :
        LET name == op.files[op.i + 1]
        IN  /\ reached(content, outcome)
            /\ Len(index) + content.n <= MaxIndexRows
            /\ \E r \in {ingest_file(files, index, has_collection, analytics,
                                     name, content, outcome)} :
                /\ files' = r.files
                /\ index' = r.index
                /\ analytics' = r.analytics
                /\ op' = loop_after_file(op, name, content, outcome, r,
                                         name \in get_uploaded_files(files),
                                         \E k \in 1..Len(index) : index[k].source = name,
                                         Len(index), analytics)
            /\ pc' = IF op'.status = "done" THEN "idle" ELSE "ingest"
    /\ UNCHANGED <<cfg, selected_model, vector_store, crew, rephrase_query, initialized, has_collection, messages, preview_file, trace>>

----------------------------------------------------------------------------
(* app.py: remove, Clear All, Reset DB *)

\* delete_file with the file removed before the index delete
delete_file_steps_file_first ==
    <<"processor.delete_file", "delete_by_source", "get_collection_stats">>

\* the external calls of delete_file, in program order
delete_file_steps ==
    <<"delete_by_source", "processor.delete_file", "get_collection_stats">>

\* after step k of delete_file, whose locals are now o: the next step, or
\* st.rerun() after the last
DeleteFileAdvance(o, k) ==
    IF k = Len(delete_file_steps)
    THEN /\ pc' = "idle"
         /\ op' = [o EXCEPT !.k = k + 1, !.status = "done"]
    ELSE /\ pc' = "delete_file"
         /\ op' = [o EXCEPT !.k = k + 1]

\* the delete button of a listed file starts delete_file(name)
DeleteFile ==
    /\ Tick
    /\ Ready
    /\ \E name \in get_uploaded_files(files) :
        op' = [kind |-> "delete_file", status |-> "running", name |-> name, k |-> 1,
               deleted |-> <<>>, stats |-> <<>>]
    /\ pc' = "delete_file"
    /\ trace' = <<>>
    /\ UNCHANGED <<cfg, selected_model, vector_store, crew, rephrase_query, initialized, has_collection, index, files, analytics,
                   messages, preview_file>>

\* vector_store.delete_by_source(name)
DeleteFileIndex ==
    /\ Tick
    /\ pc = "delete_file"
    /\ delete_file_steps[op.k] = "delete_by_source"
    /\ \E delete_ok \in BOOLEAN :
        LET r == delete_by_source(index, op.name, db_ok(has_collection, delete_ok))
        IN  /\ index' = r.index
            /\ DeleteFileAdvance(
                  [op EXCEPT !.deleted =
                      <<[count |-> r.deleted, rows_before |-> Len(index),
                         matching_before |-> records_of(index, op.name)]>>],
                  op.k)
    /\ trace' = Append(trace, "delete_by_source")
    /\ UNCHANGED <<cfg, selected_model, vector_store, crew, rephrase_query, initialized, has_collection, files, analytics, messages,
                   preview_file>>

\* the preview of the file is dropped, then processor.delete_file(name);
\* an os.remove that raises ends the handler in its except branch
DeleteFileDisk ==
    /\ Tick
    /\ pc = "delete_file"
    /\ delete_file_steps[op.k] = "processor.delete_file"
    /\ preview_file' = IF preview_file = op.name THEN NoPreview ELSE preview_file
    /\ trace' = Append(trace, "processor.delete_file")
    /\ \E remove_ok \in BOOLEAN :
        IF remove_ok
        THEN /\ files' = processor_delete_file(files, op.name)
             /\ DeleteFileAdvance(op, op.k)
        ELSE /\ files' = files
             /\ pc' = "idle"
             /\ op' = [op EXCEPT !.status = "error"]
    /\ UNCHANGED <<cfg, selected_model, vector_store, crew, rephrase_query, initialized, has_collection, index, analytics, messages>>

\* total_chunks is overwritten from get_collection_stats()
DeleteFileStats ==
    /\ Tick
    /\ pc = "delete_file"
    /\ delete_file_steps[op.k] = "get_collection_stats"
    /\ \E stats_ok \in BOOLEAN :
        LET stats == get_collection_stats(index, has_collection, stats_ok)
            o == [op EXCEPT !.stats =
                    <<[result |-> stats, stats_ok |-> stats_ok,
                       exists |-> has_collection]>>]
        IN  IF stats.raised
            THEN /\ analytics' = analytics
                 /\ pc' = "idle"
                 /\ op' = [o EXCEPT !.status = "error"]
            ELSE /\ analytics' =
                      [analytics EXCEPT !.total_chunks = stats.row_count]
                 /\ DeleteFileAdvance(o, op.k)
    /\ trace' = Append(trace, "get_collection_stats")
    /\ UNCHANGED <<cfg, selected_model, vector_store, crew, rephrase_query, initialized, has_collection, index, files, messages,
                   preview_file>>

\* clear_all_data: the collection is cleared, every listed file is deleted,
\* then messages, analytics and preview are reset.  deleted is the set of
\* files removed before an os.remove raised (all of them when none raised).
clear_all_data(idx, exists, dir, a, msgs, preview, outcome, deleted) ==
    LET c == clear_collection(idx, exists, outcome)
        left == [f \in (DOMAIN dir) \ deleted |-> dir[f]]
    IN  IF ~c.ok
        THEN [ok |-> FALSE, index |-> c.index, exists |-> c.exists, files |-> dir,
              analytics |-> a, messages |-> msgs, preview |-> preview]
        ELSE IF deleted # get_uploaded_files(dir)
        THEN [ok |-> FALSE, index |-> c.index, exists |-> c.exists, files |-> left,
              analytics |-> a, messages |-> msgs, preview |-> preview]
        ELSE [ok |-> TRUE, index |-> c.index, exists |-> c.exists, files |-> left,
              analytics |-> ZeroAnalytics, messages |-> <<>>, preview |-> NoPreview]

\* the Clear All button
ClearAllData ==
    /\ Tick
    /\ Ready
    /\ \E outcome \in ClearOutcomes, deleted \in SUBSET get_uploaded_files(files) :
        LET r == clear_all_data(index, has_collection, files, analytics, messages,
                                preview_file, outcome, deleted)
        IN  /\ index' = r.index
            /\ has_collection' = r.exists
            /\ files' = r.files
            /\ analytics' = r.analytics
            /\ messages' = r.messages
            /\ preview_file' = r.preview
            /\ op' = [kind |-> "clear_all",
                      status |-> IF r.ok THEN "done" ELSE "error"]
    /\ trace' = <<>>
    /\ UNCHANGED <<cfg, selected_model, vector_store, crew, rephrase_query, initialized, pc>>

\* reset_milvus_collection: clear the collection, then total_chunks = 0
reset_milvus_collection(idx, exists, a, outcome) ==
    LET c == clear_collection(idx, exists, outcome)
    IN  [ok |-> c.ok, index |-> c.index, exists |-> c.exists,
         analytics |-> IF c.ok THEN [a EXCEPT !.total_chunks = 0] ELSE a]

\* the Reset DB button
ResetMilvusCollection ==
    /\ Tick
    /\ Ready
    /\ \E outcome \in ClearOutcomes :
        LET r == reset_milvus_collection(index, has_collection, analytics, outcome)
        IN  /\ index' = r.index
            /\ has_collection' = r.exists
            /\ analytics' = r.analytics
            /\ op' = [kind |-> "reset_db",
                      status |-> IF r.ok THEN "done" ELSE "error"]
    /\ trace' = <<>>
    /\ UNCHANGED <<cfg, selected_model, vector_store, crew, rephrase_query, initialized, files, messages, preview_file, pc>>

----------------------------------------------------------------------------
(* app.py: process_query, running DocumentRAGCrew.query *)

\* the request of the retrieval step: embed the query, search the collection
search_request(query) ==
    [stage |-> "search", query |-> query, context |-> <<>>,
     analysis |-> <<>>, source_list |-> <<>>]

\* the end of process_query's try body: the assistant message is appended,
\* the analytics are updated and st.rerun() ends the handler and with it the
\* script run, before render_chat reaches its line after process_query
QueryReturn(res) ==
    /\ messages' = Append(messages,
                          [role |-> "assistant", content |-> res.answer,
                           sources |-> res.sources])
    /\ analytics' = update_analytics(analytics, 0,
                                     tokens_of(op.prompt, res.answer), TRUE)
    /\ pc' = "idle"
    /\ op' = [op EXCEPT !.status = "done", !.result = <<res>>]
    /\ UNCHANGED rephrase_query

\* an except branch that shows what the pipeline had so far as the answer and
\* counts the query
QueryError_partial ==
    /\ messages' = Append(messages,
                          [role |-> "assistant", content |-> NoInfoAnswer,
                           sources |-> op.sources])
    /\ analytics' = update_analytics(analytics, 0,
                                     tokens_of(op.prompt, NoInfoAnswer), TRUE)
    /\ pc' = "idle"
    /\ op' = [op EXCEPT !.status = "error"]
    /\ rephrase_query' = ""

\* the except branch of process_query; process_query returns and render_chat
\* clears rephrase_query before its st.rerun()
QueryError ==
    /\ pc' = "idle"
    /\ op' = [op EXCEPT !.status = "error"]
    /\ rephrase_query' = ""
    /\ UNCHANGED <<messages, analytics>>

\* render_chat: the text Send Query hands to process_query is the rephrased
\* query when there is one, the input otherwise
input_to_use(active_query, query_input) ==
    IF active_query # "" THEN active_query ELSE query_input

\* Send Query with a non-empty input: process_query appends the user message
\* and gives the crew the selected model
SendQuery ==
    /\ Tick
    /\ Ready
    /\ Len(messages) + 2 <= MaxMessages
    /\ \E prompt \in {input_to_use(rephrase_query, q) : q \in Queries} :
        /\ messages' = Append(messages,
                              [role |-> "user", content |-> prompt, sources |-> <<>>])
        /\ op' = [kind |-> "query", status |-> "running", prompt |-> prompt,
                  search_results |-> <<>>, sources |-> <<>>, analysis |-> <<>>,
                  result |-> <<>>, model |-> selected_model,
                  messages_before |-> messages, analytics_before |-> analytics]
    /\ crew' = set_model(crew, selected_model)
    /\ pc' = "query_search"
    /\ trace' = <<>>
    /\ UNCHANGED <<cfg, selected_model, vector_store, rephrase_query, initialized,
                   has_collection, index, files, analytics, preview_file>>

\* crew.query without the check for an empty search result
QuerySearch_no_check ==
    /\ Tick
    /\ pc = "query_search"
    /\ trace' = Append(trace, search_request(op.prompt))
    /\ \E embed_ok \in BOOLEAN, search_ok \in BOOLEAN :
        IF ~embed_ok \/ ~db_ok(has_collection, search_ok)
        THEN QueryError
        ELSE LET search_results == search(index, op.prompt, TopK)
             IN  /\ op' = [op EXCEPT
                             !.search_results = search_results,
                             !.sources = format_sources(search_results)]
                 /\ pc' = "query_analyze"
                 /\ UNCHANGED <<messages, analytics, rephrase_query>>
    /\ UNCHANGED <<cfg, selected_model, vector_store, crew, initialized, has_collection, index, files, preview_file>>

\* crew.query step 1: vector_store.search; no hit returns the fixed answer
QuerySearch ==
    /\ Tick
    /\ pc = "query_search"
    /\ trace' = Append(trace, search_request(op.prompt))
    /\ \E embed_ok \in BOOLEAN, search_ok \in BOOLEAN :
        IF ~embed_ok \/ ~db_ok(has_collection, search_ok)
        THEN QueryError
        ELSE LET search_results == search(index, op.prompt, TopK)
             IN  IF Len(search_results) = 0
                 THEN QueryReturn(no_hits_result)
                 ELSE /\ op' = [op EXCEPT
                                  !.search_results = search_results,
                                  !.sources = format_sources(search_results)]
                      /\ pc' = "query_analyze"
                      /\ UNCHANGED <<messages, analytics, rephrase_query>>
    /\ UNCHANGED <<cfg, selected_model, vector_store, crew, initialized, has_collection, index, files, preview_file>>

\* crew.query step 3 with the earlier chat messages handed to the analysis
\* as further context
QueryAnalyze_with_history ==
    /\ Tick
    /\ pc = "query_analyze"
    /\ LET plain == analyze_request(op.prompt, op.search_results)
           request == [plain EXCEPT !.context =
                         @ \o [i \in 1..Len(op.messages_before) |->
                                 [n |-> Len(op.search_results) + i,
                                  source |-> op.messages_before[i].role,
                                  page |-> 0,
                                  text |-> op.messages_before[i].content]]]
       IN  /\ trace' = Append(trace, agent_run(crew[1], request))
           /\ \E gen_ok \in BOOLEAN, w \in 1..MaxAnswerWords :
                IF ~gen_ok
                THEN QueryError
                ELSE /\ op' = [op EXCEPT !.analysis = <<generated(request, w)>>]
                     /\ pc' = "query_synthesize"
                     /\ UNCHANGED <<messages, analytics, rephrase_query>>
    /\ UNCHANGED <<cfg, selected_model, vector_store, crew, initialized, has_collection, index, files, preview_file>>

\* crew.query step 3: retrieval_agent.analyze
QueryAnalyze ==
    /\ Tick
    /\ pc = "query_analyze"
    /\ LET request == analyze_request(op.prompt, op.search_results)
       IN  /\ trace' = Append(trace, agent_run(crew[1], request))
           /\ \E gen_ok \in BOOLEAN, w \in 1..MaxAnswerWords :
                IF ~gen_ok
                THEN QueryError
                ELSE /\ op' = [op EXCEPT !.analysis = <<generated(request, w)>>]
                     /\ pc' = "query_synthesize"
                     /\ UNCHANGED <<messages, analytics, rephrase_query>>
    /\ UNCHANGED <<cfg, selected_model, vector_store, crew, initialized, has_collection, index, files, preview_file>>

\* crew.query step 4: response_agent.synthesize, then the result is returned
QuerySynthesize ==
    /\ Tick
    /\ pc = "query_synthesize"
    /\ LET request == synthesize_request(op.prompt, op.analysis[1], op.sources)
       IN  /\ trace' = Append(trace, agent_run(crew[1], request))
           /\ \E gen_ok \in BOOLEAN, w \in 1..MaxAnswerWords :
                IF ~gen_ok
                THEN QueryError
                ELSE QueryReturn([answer |-> generated(request, w),
                                  sources |-> op.sources, success |-> TRUE])
    /\ UNCHANGED <<cfg, selected_model, vector_store, crew, initialized, has_collection, index, files, preview_file>>

----------------------------------------------------------------------------
(* Querying sessions: a deployment that holds documents, sessions with and *)
(* without earlier queries                                                 *)

\* render_sidebar: another model is picked in the AI Model box; the crew,
\* when there is one, gets it at once
SelectModel ==
    /\ Tick
    /\ Ready
    /\ \E selected \in Models \ {selected_model} :
        /\ selected_model' = selected
        /\ crew' = IF crew # NoCrew THEN set_model(crew, selected) ELSE crew
    /\ UNCHANGED <<cfg, vector_store, rephrase_query, initialized, has_collection,
                   index, files, analytics, messages, preview_file, pc, op, trace>>

\* what the uploads directory of the deployment holds: nothing, or one PDF of
\* one full batch of chunks
QueryUploads ==
    {<<>>, save_uploaded_file(<<>>, "a.pdf", [readable |-> TRUE, n |-> BatchSize])}

\* the collection after the files of dir were ingested
index_of(dir) ==
    IF DOMAIN dir = {} THEN <<>>
    ELSE add_documents(<<>>, process_file("a.pdf", dir["a.pdf"]).chunks, 0, TRUE).index

\* what DocumentRAGCrew.query(q) returns on the collection idx when no call
\* raises and every generated text has one word
crew_query(idx, q) ==
    LET search_results == search(idx, q, TopK)
        sources == format_sources(search_results)
        analysis == generated(analyze_request(q, search_results), 1)
    IN  IF Len(search_results) = 0
        THEN no_hits_result
        ELSE [answer |-> generated(synthesize_request(q, analysis, sources), 1),
              sources |-> sources, success |-> TRUE]

\* the session state right after initialize_services on the collection idx
\* (total_chunks hydrated from the row count)
FreshSession(idx) ==
    [messages |-> <<>>,
     analytics |-> [ZeroAnalytics EXCEPT !.total_chunks = Len(idx)],
     crew |-> DocumentRAGCrew]

\* the session after an earlier query q whose pipeline raised: the user
\* message stays, nothing is counted
SessionAfterFailed(idx, q) ==
    [messages |-> <<[role |-> "user", content |-> q, sources |-> <<>>]>>,
     analytics |-> FreshSession(idx).analytics,
     crew |-> set_model(DocumentRAGCrew, DefaultModel)]

\* the session after an earlier query q that was answered
SessionAfterAnswered(idx, q) ==
    LET res == crew_query(idx, q)
    IN  [messages |-> <<[role |-> "user", content |-> q, sources |-> <<>>],
                        [role |-> "assistant", content |-> res.answer,
                         sources |-> res.sources]>>,
         analytics |-> update_analytics(FreshSession(idx).analytics, 0,
                                        tokens_of(q, res.answer), TRUE),
         crew |-> set_model(DocumentRAGCrew, DefaultModel)]

\* the sessions of a deployment whose collection is idx
QuerySessions(idx) ==
    {FreshSession(idx)}
        \cup {SessionAfterFailed(idx, q) : q \in Queries}
        \cup {SessionAfterAnswered(idx, q) : q \in Queries}

\* an initialised session between two handlers, with or without an earlier
\* query, on a deployment with or without documents
InitQuery ==
    /\ cfg = [k \in RequiredSettings |-> TRUE]
    /\ initialized = TRUE
    /\ has_collection = TRUE
    /\ files \in QueryUploads
    /\ index = index_of(files)
    /\ \E session \in QuerySessions(index) :
        /\ analytics = session.analytics
        /\ messages = session.messages
        /\ crew = session.crew
    /\ preview_file = NoPreview
    /\ rephrase_query = ""
    /\ selected_model = DefaultModel
    /\ vector_store = TRUE
    /\ steps = 0
    /\ pc = "idle"
    /\ op = NoOp
    /\ trace = <<>>

NextQuery ==
    \/ SelectModel
    \/ SendQuery
    \/ QuerySearch
    \/ QueryAnalyze
    \/ QuerySynthesize

SpecQuery == InitQuery /\ [][NextQuery]_vars

----------------------------------------------------------------------------
(* DocumentProcessor used directly: load_document on a path *)

\* a DocumentProcessor was constructed and load_document(path) is about to
\* be called on some file of some content
InitLoad ==
    /\ cfg = [k \in RequiredSettings |-> TRUE]
    /\ initialized = FALSE
    /\ has_collection = FALSE
    /\ index = <<>>
    /\ files = <<>>
    /\ analytics = ZeroAnalytics
    /\ messages = <<>>
    /\ preview_file = NoPreview
    /\ rephrase_query = ""
    /\ selected_model = DefaultModel
    /\ vector_store = FALSE
    /\ crew = NoCrew
    /\ steps = 0
    /\ pc = "load_document"
    /\ op \in {[kind |-> "load_document", status |-> "running",
                 name |-> name, content |-> content, result |-> <<>>] :
                    name \in PathNames, content \in Contents}
    /\ trace = <<>>

\* load_document(path) runs and returns its documents or raises
LoadDocument ==
    /\ pc = "load_document"
    /\ op' = [op EXCEPT !.status = "done",
                        !.result = <<load_document(op.name, op.content)>>]
    /\ pc' = "returned"
    /\ UNCHANGED <<cfg, selected_model, vector_store, crew, rephrase_query, initialized, has_collection, index, files, analytics,
                   messages, preview_file, steps, trace>>

NextLoad == LoadDocument

SpecLoad == InitLoad /\ [][NextLoad]_vars

----------------------------------------------------------------------------

Next ==
    \/ InitializeServices
    \/ NewSession
    \/ ViewDocument
    \/ ClosePreview
    \/ ProcessNewDocuments
    \/ IngestFile
    \/ DeleteFile
    \/ DeleteFileIndex
    \/ DeleteFileDisk
    \/ DeleteFileStats
    \/ ClearAllData
    \/ ResetMilvusCollection
    \/ Rephrase
    \/ SendQuery
    \/ QuerySearch
    \/ QueryAnalyze
    \/ QuerySynthesize

Spec == Init /\ [][Next]_vars

----------------------------------------------------------------------------
(* Properties *)

SourcesIn(idx) == {idx[i].source : i \in 1..Len(idx)}

\* the last file the running or finished ingestion handled
LastFile == op.last[1]

GenerationStages == {"analysis", "synthesis"}

\* the generation calls a query has made so far
GenerationCalls == SelectSeq(trace, LAMBDA t : t.stage \in GenerationStages)

\* C1: once delete_file(name) has removed the file from the uploads directory,
\* the collection holds no record whose source is name, whatever the index
\* delete call did
C1_RemovedFileHasNoVectors ==
    (op.kind = "delete_file" /\ op.name \notin DOMAIN files)
        => op.name \notin SourcesIn(index)

\* C2: the calls delete_file has issued are always an initial part of: index
\* delete, file delete, stats refresh; the file is gone only after the index
\* delete was issued, and a remove that returns normally has made all three
C2_RemoveOrder ==
    op.kind = "delete_file" =>
        /\ trace = Take(<<"delete_by_source", "processor.delete_file",
                          "get_collection_stats">>, Len(trace))
        /\ op.name \notin DOMAIN files =>
              (Len(trace) >= 2 /\ trace[1] = "delete_by_source")
        /\ op.status = "done" => Len(trace) = 3

\* a remove that ran to its end: the file is gone and the three calls were made
C2_Witness ==
    /\ op.kind = "delete_file"
    /\ op.status = "done"
    /\ op.name \notin DOMAIN files
    /\ Len(trace) = 3

\* C3: after a remove, a Clear All or a Reset DB that ran to its end,
\* total_chunks is the number of records stored in the collection
C3_ChunksMatchIndex ==
    (pc = "idle" /\ op.kind \in {"delete_file", "clear_all", "reset_db"}
        /\ op.status = "done")
        => analytics.total_chunks = Len(index)

\* C4: a step of Clear All either empties the collection, removes every listed
\* file and zeroes the four counters, or changes none of the three
C4_ClearAllIsAllOrNothing ==
    [][(pc = "idle" /\ op'.kind = "clear_all" /\ trace' = <<>>) =>
          \/ /\ index' = <<>>
             /\ get_uploaded_files(files') = {}
             /\ analytics' = ZeroAnalytics
          \/ /\ index' = index
             /\ files' = files
             /\ analytics' = analytics]_vars

\* C5: a file whose name was in the uploads directory, with its chunks in the
\* collection, when its turn in the batch came adds no record to the
\* collection: no name is ingested a second time
C5_PresentNameNotIngested ==
    (op.kind = "ingest" /\ op.last # <<>>
        /\ LastFile.present_before /\ LastFile.indexed_before)
        => LastFile.added = 0

\* C6: when an embedding batch of a file fails, the collection has the rows it
\* had before the file and total_chunks is what it was before the file
C6_EmbeddingAllOrNothing ==
    (op.kind = "ingest" /\ op.last # <<>> /\ LastFile.raised = "embed")
        => /\ Len(index) = LastFile.rows_before
           /\ analytics.total_chunks = LastFile.chunks_before
           /\ LastFile.added = 0

\* the middle batch of a three-batch file failed
C6_Witness ==
    /\ op.kind = "ingest"
    /\ op.last # <<>>
    /\ LastFile.raised = "embed"
    /\ LastFile.n > 2 * BatchSize
    /\ LastFile.failAt = 2

\* C7: process_uploaded_files returns only after every file of the batch had
\* its turn, whatever failed; the rows added to the collection are the chunks
\* of the files that succeeded, and a file that succeeds after a failure is
\* inserted and counted in full
C7_BatchContinues ==
    op.kind = "ingest" =>
        /\ pc = "idle" => op.i = Len(op.files)
        /\ Len(index) = op.rows_start + op.chunks
        /\ (op.last # <<>> /\ LastFile.raised = "") =>
              /\ Len(index) = LastFile.rows_before + LastFile.n
              /\ analytics.total_chunks = LastFile.chunks_before + LastFile.n

\* a batch ended whose last file was ingested after an earlier file failed
C7_Witness ==
    /\ op.kind = "ingest"
    /\ pc = "idle"
    /\ op.last # <<>>
    /\ LastFile.errors_before > 0
    /\ LastFile.added > 0

\* the record add_documents is to build for chunk number k (from 0) of a file
ExpectedRecord(name, k) ==
    [vector |-> <<"vec", <<name, k>>>>,
     text |-> [id |-> <<name, k>>, len |-> CHUNK_SIZE],
     source |-> name,
     page |-> IF name = "a.pdf" THEN k \div ChunksPerPage ELSE 0,
     chunk_index |-> k]

\* C8: a file that was added put exactly one record per chunk at the end of
\* the collection, in chunk order, record i holding the embedding of chunk i's
\* text and chunk i's source, page and chunk_index
C8_RecordsMatchChunks ==
    (op.kind = "ingest" /\ op.last # <<>> /\ LastFile.added > 0) =>
        /\ LastFile.added = LastFile.n
        /\ Len(index) = LastFile.rows_before + LastFile.n
        /\ \A i \in 1..LastFile.n :
              index[LastFile.rows_before + i] = ExpectedRecord(LastFile.name, i - 1)

\* a file of several embedding batches was added
C8_Witness ==
    /\ op.kind = "ingest"
    /\ op.last # <<>>
    /\ LastFile.added > 2 * BatchSize

\* C9: a query on a collection without records makes no generation call, and
\* when it returns it returns the fixed answer with no sources and
\* success = FALSE, which is appended as the assistant message
C9_NoHitsNoGeneration ==
    (op.kind = "query" /\ Len(index) = 0) =>
        /\ GenerationCalls = <<>>
        /\ op.status = "done" =>
              /\ op.result[1].answer = [stage |-> "none", query |-> "", words |-> 20]
              /\ op.result[1].sources = <<>>
              /\ op.result[1].success = FALSE
              /\ messages[Len(messages)].role = "assistant"
              /\ messages[Len(messages)].content = op.result[1].answer

\* a query on an empty collection returned normally
C9_Witness ==
    /\ op.kind = "query"
    /\ Len(index) = 0
    /\ op.status = "done"
    /\ Len(trace) = 1

\* C10: a query with hits makes the analysis call and then the synthesis call
\* and no other; analysis gets the whole hit list in rank order, synthesis
\* gets the query, the analysis text and the source names of the first five
\* hits, and the answer returned is the text synthesis produced
C10_TwoStagesInOrder ==
    (op.kind = "query" /\ Len(index) > 0) =>
        LET hits == search(index, op.prompt, TopK)
            calls == GenerationCalls
        IN  /\ Len(calls) <= 2
            /\ Len(calls) >= 1 =>
                  /\ calls[1].stage = "analysis"
                  /\ calls[1].query = op.prompt
                  /\ Len(calls[1].context) = Len(hits)
                  /\ \A i \in 1..Len(hits) :
                        /\ calls[1].context[i].source = hits[i].source
                        /\ calls[1].context[i].text = hits[i].text
            /\ Len(calls) = 2 =>
                  /\ calls[2].stage = "synthesis"
                  /\ calls[2].query = op.prompt
                  /\ op.analysis # <<>>
                  /\ op.analysis[1].stage = "analysis"
                  /\ calls[2].analysis = op.analysis
                  /\ calls[2].source_list =
                        [i \in 1..Min(Len(hits), 5) |-> hits[i].source]
            /\ op.status = "done" =>
                  /\ Len(calls) = 2
                  /\ op.result[1].success = TRUE
                  /\ op.result[1].answer.stage = "synthesis"
                  /\ op.result[1].answer.query = op.prompt
                  /\ messages[Len(messages)].content = op.result[1].answer

\* a query with five hits returned its synthesized answer
C10_Witness ==
    /\ op.kind = "query"
    /\ op.status = "done"
    /\ Len(op.search_results) = 5
    /\ Len(GenerationCalls) = 2

\* C11: a query that failed at the embedding, the search, the analysis or the
\* synthesis left the chat with the user message as its last entry and no
\* assistant message, and total_queries, total_tokens_used and estimated_cost
\* as they were when the query was sent
C11_FailedQueryLeavesNoAnswer ==
    (op.kind = "query" /\ op.status = "error") =>
        /\ messages = Append(op.messages_before,
                             [role |-> "user", content |-> op.prompt,
                              sources |-> <<>>])
        /\ analytics.total_queries = op.analytics_before.total_queries
        /\ analytics.total_tokens_used = op.analytics_before.total_tokens_used
        /\ analytics.estimated_cost = op.analytics_before.estimated_cost

\* a query failed in its second generation call, after the analysis was made
C11_Witness ==
    /\ op.kind = "query"
    /\ op.status = "error"
    /\ Len(GenerationCalls) = 2
    /\ op.analysis # <<>>

\* what delete_by_source returned in the running or finished remove
Deleted == op.deleted[1]

\* C12: once delete_by_source(name) has returned, the collection holds no
\* record whose source is name, the count returned is the number of records
\* the collection held for name, the row count is lower by exactly that
\* number, and no query gets a hit from name
C12_DeleteBySourceRemovesAndCounts ==
    (op.kind = "delete_file" /\ op.deleted # <<>>) =>
        /\ op.name \notin SourcesIn(index)
        /\ Deleted.count = Deleted.matching_before
        /\ Len(index) = Deleted.rows_before - Deleted.matching_before
        /\ \A q \in Queries :
              \A i \in 1..Len(search(index, q, TopK)) :
                  search(index, q, TopK)[i].source # op.name

\* the records of the collection idx whose source is name, in stored order
RecordsOf(idx, name) == SelectSeq(idx, LAMBDA r : r.source = name)

C14_IngestCountsChunks ==
    (op.kind = "ingest" /\ op.last # <<>> /\ LastFile.raised = "") =>
        /\ LastFile.added = LastFile.n
        /\ Len(index) = LastFile.rows_before + LastFile.n
        /\ analytics.total_chunks = LastFile.chunks_before + LastFile.n
        /\ analytics.total_queries = LastFile.analytics_before.total_queries
        /\ analytics.total_tokens_used =
              LastFile.analytics_before.total_tokens_used
        /\ LastFile.n = 0 => analytics = LastFile.analytics_before

\* a file was ingested into a collection that already held records of the
\* same name: its chunks were appended to them
C14_Witness ==
    /\ op.kind = "ingest"
    /\ op.last # <<>>
    /\ LastFile.raised = ""
    /\ LastFile.indexed_before
    /\ LastFile.n > 0
    /\ Len(index) = LastFile.rows_before + LastFile.n

\* the chunks of a file, for an insert after Reset DB
ProbeChunks == process_file("a.pdf", [readable |-> TRUE, n |-> BatchSize]).chunks

\* C15: after a Reset DB whose clear_collection returned without an error,
\* whether the collection held records, was empty or did not exist, the
\* collection exists and is empty: get_collection_stats reports 0 rows and
\* an insert is accepted
C15_ClearLeavesEmptyCollection ==
    (op.kind = "reset_db" /\ op.status = "done") =>
        /\ has_collection
        /\ index = <<>>
        /\ get_collection_stats(index, has_collection, TRUE).row_count = 0
        /\ add_documents(index, ProbeChunks, 0,
                         db_ok(has_collection, TRUE)).ok

\* what get_collection_stats was asked and returned in the last remove
Stats == op.stats[1]

\* C16: get_collection_stats returned to delete_file without raising, so
\* that the remove ran to its end; when the database call failed the result
\* has row_count 0 and an error entry, and when the collection does not
\* exist it has row_count 0
C16_StatsNeverRaises ==
    (op.kind = "delete_file" /\ op.stats # <<>>) =>
        /\ ~Stats.result.raised
        /\ op.status = "done"
        /\ ~Stats.stats_ok =>
              (Stats.result.row_count = 0 /\ Stats.result.error)
        /\ (Stats.stats_ok /\ ~Stats.exists) =>
              (Stats.result.row_count = 0 /\ ~Stats.result.error)
        /\ (Stats.stats_ok /\ Stats.exists) =>
              (Stats.result.row_count = Len(index) /\ ~Stats.result.error)

\* the database call of get_collection_stats failed while the collection
\* held records, and the remove still ran to its end
C16_Witness ==
    /\ op.kind = "delete_file"
    /\ op.stats # <<>>
    /\ ~Stats.stats_ok
    /\ Len(index) > 0
    /\ op.status = "done"

\* the required settings that are not set
MissingSettings == {k \in RequiredSettings : ~cfg[k]}

\* C17: while one of OPENAI_API_KEY, MILVUS_URI, MILVUS_TOKEN is missing the
\* session is never initialized and no collection is ever created; every run
\* of initialize_services ends in an error whose message has one line for
\* each missing setting, with neither the vector store nor the crew
\* constructed
C17_ConfigValidatedFirst ==
    MissingSettings # {} =>
        /\ ~initialized
        /\ ~has_collection
        /\ op.kind = "init" =>
              /\ op.status = "error"
              /\ op.message = MissingSettings
              /\ Cardinality(op.message) = Cardinality(MissingSettings)
              /\ op.constructed = <<>>

\* initialize_services ran with only MILVUS_TOKEN missing
C17_Witness ==
    /\ MissingSettings = {"MILVUS_TOKEN"}
    /\ op.kind = "init"
    /\ op.status = "error"

\* C18: load_document raises its unsupported-type error exactly for the
\* files whose lower-cased extension is not in SUPPORTED_EXTENSIONS; a file
\* whose extension is in the set gets a loader
C18_UnsupportedIffNotConfigured ==
    (op.kind = "load_document" /\ op.status = "done") =>
        (op.result[1].error = "ValueError"
            <=> lower(suffix(op.name)) \notin SUPPORTED_EXTENSIONS)

\* C19: the progress updates of process_uploaded_files are one per file
\* handled so far, failed or not: update k is made after file k and shows
\* k / total, each value is above the one before, and when the batch has
\* ended there is one per file and the last shows 1
C19_OneProgressPerFile ==
    op.kind = "ingest" =>
        /\ Len(op.progress) = op.i
        /\ \A k \in 1..Len(op.progress) :
              op.progress[k] = <<k, Len(op.files)>>
        /\ \A k \in 1..(Len(op.progress) - 1) :
              op.progress[k][1] * op.progress[k + 1][2]
                  < op.progress[k + 1][1] * op.progress[k][2]
        /\ pc = "idle" =>
              /\ Len(op.progress) = Len(op.files)
              /\ op.progress[Len(op.progress)][1] = op.progress[Len(op.progress)][2]

\* a batch of two files ended in which a file had failed
C19_Witness ==
    /\ op.kind = "ingest"
    /\ pc = "idle"
    /\ Len(op.files) = 2
    /\ op.errors > 0
    /\ Len(op.progress) = 2

\* C20: a click on Rephrase leaves the collection, the uploads directory,
\* the analytics and the chat messages as they are; with an empty or blank
\* input no generation request is made and the text handed back is the
\* input; when the generation call raises the text handed back is the input;
\* at most one generation request is made
C20_RephraseIsPureRewrite ==
    [][op'.kind = "rephrase" =>
          /\ index' = index
          /\ has_collection' = has_collection
          /\ files' = files
          /\ analytics' = analytics
          /\ messages' = messages
          /\ Len(trace') <= 1
          /\ op'.input \in {"", "  "} =>
                (trace' = <<>> /\ op'.result = op'.input)
          /\ op'.raised => op'.result = op'.input
          /\ op'.called => rephrase_query' = op'.result]_vars

\* the generation call of a rephrase failed in a session that holds
\* documents and a chat message
C20_Witness ==
    /\ op.kind = "rephrase"
    /\ op.raised
    /\ op.result = op.input
    /\ rephrase_query = op.input
    /\ Len(index) > 0
    /\ messages # <<>>

\* what DocumentRAGCrew.query(q) sends out on the collection idx with the
\* model m, written from q, idx and m alone: the embedding and search of q,
\* then for a search with hits the analysis call on the hits and the
\* synthesis call on the analysis text
StatelessCalls(q, idx, m, analysis) ==
    LET hits == search(idx, q, TopK)
    IN  <<[stage |-> "search", query |-> q, context |-> <<>>,
           analysis |-> <<>>, source_list |-> <<>>]>>
        \o (IF Len(hits) = 0 THEN <<>>
            ELSE <<[model |-> m, stage |-> "analysis", query |-> q,
                    context |-> [i \in 1..Len(hits) |->
                                   [n |-> i, source |-> hits[i].source,
                                    page |-> hits[i].page, text |-> hits[i].text]],
                    analysis |-> <<>>, source_list |-> <<>>],
                   [model |-> m, stage |-> "synthesis", query |-> q,
                    context |-> <<>>, analysis |-> analysis,
                    source_list |-> [i \in 1..Min(Len(hits), SourceListLen) |->
                                       hits[i].source]]>>)

\* what DocumentRAGCrew.query(q) returns on the collection idx when the
\* synthesis call returned w words, written from q, idx and w alone
StatelessResult(q, idx, w) ==
    LET hits == search(idx, q, TopK)
    IN  IF Len(hits) = 0
        THEN [answer |-> [stage |-> "none", query |-> "", words |-> 20],
              sources |-> <<>>, success |-> FALSE]
        ELSE [answer |-> [stage |-> "synthesis", query |-> q, words |-> w],
              sources |-> [i \in 1..Len(hits) |->
                             [source |-> hits[i].source, page |-> hits[i].page,
                              score |-> hits[i].score,
                              text |-> IF hits[i].text.len > 300
                                       THEN [hits[i].text EXCEPT !.len = 303]
                                       ELSE hits[i].text]],
              success |-> TRUE]

\* C21: the calls a query has made so far are the first calls of the list
\* that its text, the collection and the selected model determine, whatever
\* the chat held and whatever was asked before; every query that got past
\* its first step embedded and searched its text again; and the result it
\* returns is the one its text, the collection and the words the synthesis
\* call returned determine
C21_QueriesCarryNoMemory ==
    op.kind = "query" =>
        LET expected == StatelessCalls(op.prompt, index, op.model, op.analysis)
        IN  /\ Len(trace) <= Len(expected)
            /\ trace = SubSeq(expected, 1, Len(trace))
            /\ pc # "query_search" => Len(trace) >= 1
            /\ op.status = "done" =>
                  /\ trace = expected
                  /\ \E w \in 1..MaxAnswerWords :
                        op.result[1] = StatelessResult(op.prompt, index, w)

\* a query was answered from five hits with a model picked in the sidebar,
\* in a session whose chat already held an answered query
C21_Witness ==
    /\ op.kind = "query"
    /\ op.status = "done"
    /\ Len(op.messages_before) = 2
    /\ op.model # DefaultModel
    /\ Len(op.search_results) = 5
    /\ Len(trace) = 3

\* C22: between handlers the estimated cost is the cost formula applied to
\* the current total_chunks and total_tokens_used
C22_CostMatchesCounters ==
    pc = "idle" =>
        analytics.estimated_cost =
            cost_of(analytics.total_chunks, analytics.total_tokens_used)

\* C23: once a query was answered no rephrased query is pending, so the
\* next Send Query sends what is typed then
C23_AnsweredQueryClearsRephrase ==
    (op.kind = "query" /\ op.status = "done") => rephrase_query = ""

\* C24: a file that was saved and then failed to load, to embed or to be
\* inserted counts as new when it is uploaded again, so that Process New
\* Documents is offered for it
C24_FailedFileCanBeIngestedAgain ==
    (op.kind = "ingest" /\ op.last # <<>>
        /\ LastFile.raised \in {"load", "embed", "insert"}) =>
            new_files_of(<<LastFile.name>>, files) = <<LastFile.name>>

\* C25: between handlers a preview that is set names a file of the uploads
\* directory
C25_PreviewedFileExists ==
    (pc = "idle" /\ preview_file # NoPreview) => preview_file \in DOMAIN files

\* the handlers that work on the services
HandlerKinds == {"ingest", "delete_file", "clear_all", "reset_db", "query"}

\* C26: a step of an ingest, a remove, a Clear All, a Reset DB or a query is
\* taken with initialized set and vector_store and crew in place, and leaves
\* them so; after an initialisation that failed initialized is not set and no
\* handler can start; and in an initialised session no initialisation runs
C26_HandlersNeedServices ==
    [][/\ (op'.kind \in HandlerKinds /\ (op' # op \/ pc' # "idle")) =>
            /\ initialized /\ vector_store /\ crew # NoCrew
            /\ initialized' /\ vector_store' /\ crew' # NoCrew
       /\ (op'.kind = "init" /\ op'.status = "error") =>
            (~initialized' /\ ~Ready')
       /\ (initialized /\ op'.kind = "init") => op' = op]_vars

\* a remove is running in a session whose services are in place
C26_Witness ==
    /\ op.kind = "delete_file"
    /\ pc = "delete_file"
    /\ initialized
    /\ vector_store
    /\ crew # NoCrew

====
